---- MODULE Spec2Model ----
(***************************************************************************)
(* Model of custom_components/octopus_germany/sensor.py: the Octopus       *)
(* Germany electricity price sensor.  The coordinator's data is a JSON     *)
(* like value; the sensor projects it into a price (native_value) and an   *)
(* attribute tree (_update_attributes).                                    *)
(*                                                                         *)
(* Python values are tagged records:                                       *)
(*   [t |-> "none"]                      None                              *)
(*   [t |-> "bool", b |-> BOOLEAN]       True / False                      *)
(*   [t |-> "num", n |-> Int, den |-> Nat \ {0}]   an int or float, held   *)
(*                                       as the reduced fraction n/den     *)
(*   [t |-> "str", s |-> <<"2","5","0">>]  a str, one character per entry  *)
(*   [t |-> "list", l |-> <<...>>]       a list                            *)
(*   [t |-> "dict", d |-> [key |-> value]]  a dict with string keys        *)
(* An operation's outcome is [raised |-> FALSE, val |-> v] when it returns *)
(* v and [raised |-> TRUE, exc |-> "AttributeError"] when an exception     *)
(* escapes it.                                                             *)
(***************************************************************************)
EXTENDS Integers, Sequences, FiniteSets, TLC

(***************************************************************************)
(* Python values                                                           *)
(***************************************************************************)
PyNone == [t |-> "none"]
Bool(b) == [t |-> "bool", b |-> b]
Str(s) == [t |-> "str", s |-> s]
List(l) == [t |-> "list", l |-> l]
Dict(f) == [t |-> "dict", d |-> f]

EmptyMap == [k \in {} |-> PyNone]
EmptyDict == Dict(EmptyMap)
EmptyList == List(<<>>)
EmptyStr == Str(<<>>)

Abs(x) == IF x < 0 THEN -x ELSE x

RECURSIVE GCD(_, _)
GCD(a, b) == IF b = 0 THEN a ELSE GCD(b, a % b)

\* The number n/den (den > 0), reduced.
Num(n, den) ==
  LET g == GCD(Abs(n), den)
  IN  [t |-> "num", n |-> n \div g, den |-> den \div g]

IsDict(v) == v.t = "dict"

\* bool(v): Python's truth value.
Truthy(v) ==
  CASE v.t = "none" -> FALSE
    [] v.t = "bool" -> v.b
    [] v.t = "num" -> v.n # 0
    [] v.t = "str" -> Len(v.s) > 0
    [] v.t = "list" -> Len(v.l) > 0
    [] v.t = "dict" -> DOMAIN v.d # {}

\* d.get(key, default) on a dict d.
Get(d, key, default) == IF key \in DOMAIN d.d THEN d.d[key] ELSE default

\* key in d, on a dict d.
Has(d, key) == key \in DOMAIN d.d

Ok(v) == [raised |-> FALSE, val |-> v]
Raise(e) == [raised |-> TRUE, exc |-> e]

\* iter(v): the items a for loop walks, or TypeError for a value that is
\* not iterable.  A str yields its characters, each a str.  (No snapshot of
\* the model holds a dict where the code iterates.)
Iter(v) ==
  CASE v.t = "list" -> Ok(v.l)
    [] v.t = "str" -> Ok([i \in 1..Len(v.s) |-> Str(<<v.s[i]>>)])
    [] v.t \in {"none", "bool", "num"} -> Raise("TypeError")

(***************************************************************************)
(* float(x)                                                                *)
(***************************************************************************)
Digits == <<"0", "1", "2", "3", "4", "5", "6", "7", "8", "9">>
IsDigit(c) == \E i \in 1..10 : Digits[i] = c
DigitVal(c) == (CHOOSE i \in 1..10 : Digits[i] = c) - 1
IsSpace(c) == c = " "

RECURSIVE Pow10(_)
Pow10(k) == IF k = 0 THEN 1 ELSE 10 * Pow10(k - 1)

\* The value of a sequence of digits read as a decimal numeral (0 if empty).
RECURSIVE DigitsVal(_)
DigitsVal(s) ==
  IF s = <<>> THEN 0
  ELSE 10 * DigitsVal(SubSeq(s, 1, Len(s) - 1)) + DigitVal(s[Len(s)])

RECURSIVE LStrip(_)
LStrip(s) == IF s # <<>> /\ IsSpace(s[1]) THEN LStrip(Tail(s)) ELSE s

RECURSIVE RStrip(_)
RStrip(s) ==
  IF s # <<>> /\ IsSpace(s[Len(s)]) THEN RStrip(SubSeq(s, 1, Len(s) - 1)) ELSE s

AllDigits(s) == \A i \in 1..Len(s) : IsDigit(s[i])

\* float() of a str over the alphabet digits, ".", "+", "-", " " and
\* letters other than those of an exponent, "inf" or "nan": surrounding
\* whitespace is stripped, then an optional sign, then digits with at most
\* one "." and at least one digit.  Anything else is a ValueError.
ParseFloat(s) ==
  LET body == RStrip(LStrip(s))
      signed == body # <<>> /\ body[1] \in {"+", "-"}
      neg == body # <<>> /\ body[1] = "-"
      mag == IF signed THEN Tail(body) ELSE body
      dots == {i \in 1..Len(mag) : mag[i] = "."}
      ip == IF dots = {} THEN mag
            ELSE SubSeq(mag, 1, (CHOOSE i \in dots : TRUE) - 1)
      fp == IF dots = {} THEN <<>>
            ELSE SubSeq(mag, (CHOOSE i \in dots : TRUE) + 1, Len(mag))
      wellformed == /\ Cardinality(dots) <= 1
                    /\ AllDigits(ip) /\ AllDigits(fp)
                    /\ Len(ip) + Len(fp) > 0
      magnitude == DigitsVal(ip) * Pow10(Len(fp)) + DigitsVal(fp)
  IN  IF wellformed
      THEN Ok(Num(IF neg THEN -magnitude ELSE magnitude, Pow10(Len(fp))))
      ELSE Raise("ValueError")

\* float(x): a number is itself, a bool is 1.0 or 0.0, a str is parsed,
\* every other type is a TypeError.
Float(x) ==
  CASE x.t = "num" -> Ok(x)
    [] x.t = "bool" -> Ok(Num(IF x.b THEN 1 ELSE 0, 1))
    [] x.t = "str" -> ParseFloat(x.s)
    [] x.t \in {"none", "list", "dict"} -> Raise("TypeError")

\* x / 100.0
Div100(x) == Num(x.n, x.den * 100)

Unknown == Str(<<"U", "n", "k", "n", "o", "w", "n">>)
Zero == Str(<<"0">>)

(***************************************************************************)
(* f"{x:.2f} €"                                                            *)
(***************************************************************************)
RECURSIVE NatChars(_)
NatChars(k) ==
  IF k < 10 THEN <<Digits[k + 1]>>
  ELSE Append(NatChars(k \div 10), Digits[(k % 10) + 1])

\* n/den rounded to hundredths, ties to even, as a count of hundredths.
Hundredths(n, den) ==
  LET a == Abs(n) * 100
      q == a \div den
      r == a % den
  IN  IF 2 * r > den \/ (2 * r = den /\ q % 2 = 1) THEN q + 1 ELSE q

Fixed2(n, den) ==
  LET h == Hundredths(n, den)
  IN  (IF n < 0 THEN <<"-">> ELSE <<>>)
        \o NatChars(h \div 100) \o <<".">>
        \o <<Digits[((h \div 10) % 10) + 1], Digits[(h % 10) + 1]>>

\* f"{x:.2f} €": the format code f takes a number (a bool is an int); a
\* str is a ValueError, every other type a TypeError.
FormatBalance(x) ==
  CASE x.t = "num" -> Ok(Str(Fixed2(x.n, x.den) \o <<" ", "€">>))
    [] x.t = "bool" -> Ok(Str(Fixed2(IF x.b THEN 1 ELSE 0, 1) \o <<" ", "€">>))
    [] x.t = "str" -> Raise("ValueError")
    [] x.t \in {"none", "list", "dict"} -> Raise("TypeError")

(***************************************************************************)
(* OctopusElectricityPriceSensor.native_value                              *)
(***************************************************************************)
\* A loop that gives up at the first product whose grossRate does not parse.
RECURSIVE PriceLoopAborting(_, _)
PriceLoopAborting(products, i) ==
  IF i > Len(products) THEN Ok(PyNone)
  ELSE IF ~IsDict(products[i]) THEN Raise("AttributeError")
  ELSE LET gross_rate == Float(Get(products[i], "grossRate", Zero))
       IN  IF gross_rate.raised THEN Ok(PyNone)
           ELSE Ok(Div100(gross_rate.val))

\* for product in products: try float(product.get("grossRate", "0")) / 100.0
\* and return it; on ValueError or TypeError continue with the next
\* product; after the loop return None.  product.get on a product that is
\* no dict is an AttributeError, which the except clause does not catch.
RECURSIVE PriceLoop(_, _)
PriceLoop(products, i) ==
  IF i > Len(products) THEN Ok(PyNone)
  ELSE IF ~IsDict(products[i]) THEN Raise("AttributeError")
  ELSE LET gross_rate == Float(Get(products[i], "grossRate", Zero))
       IN  IF gross_rate.raised THEN PriceLoop(products, i + 1)
           ELSE Ok(Div100(gross_rate.val))

\* A price of 0.0 when there are no products.
PriceOfEmptyZero(products) ==
  IF ~Truthy(products) THEN Ok(Num(0, 1))
  ELSE IF Iter(products).raised THEN Raise("TypeError")
  ELSE PriceLoop(Iter(products).val, 1)

PriceOf(products) ==
  IF ~Truthy(products) THEN Ok(PyNone)
  ELSE IF Iter(products).raised THEN Raise("TypeError")
  ELSE PriceLoop(Iter(products).val, 1)

native_value(coordinator_data, account_number) ==
  IF \/ ~Truthy(coordinator_data)
     \/ ~IsDict(coordinator_data)
     \/ ~Has(coordinator_data, account_number)
  THEN Ok(PyNone)
  ELSE IF ~IsDict(coordinator_data.d[account_number])
  THEN Raise("AttributeError")
  ELSE PriceOf(Get(coordinator_data.d[account_number], "products", EmptyList))

(***************************************************************************)
(* OctopusElectricityPriceSensor._update_attributes                        *)
(***************************************************************************)
\* A default tree that also carries the two pass-through numbers.
default_attributes_with_numbers ==
  Dict([code |-> Unknown, name |-> Unknown, description |-> Unknown,
        type |-> Unknown, valid_from |-> Unknown, valid_to |-> Unknown,
        properties |-> EmptyList, malo_number |-> Unknown,
        melo_number |-> Unknown])

default_attributes ==
  Dict([code |-> Unknown, name |-> Unknown, description |-> Unknown,
        type |-> Unknown, valid_from |-> Unknown, valid_to |-> Unknown,
        properties |-> EmptyList])

\* Python's sequencing of two steps, each of which may raise: the first
\* exception escapes; otherwise head is put in front of the items of rest.
Cons(head, rest) ==
  IF head.raised THEN head
  ELSE IF rest.raised THEN rest
  ELSE Ok(<<head.val>> \o rest.val)

\* The "product" summary of an agreement whose "product" is truthy.
AgreementProduct(product) ==
  IF ~IsDict(product) THEN Raise("AttributeError")
  ELSE Ok(Dict([code |-> Get(product, "code", Unknown),
                description |-> Get(product, "description", EmptyStr),
                full_name |-> Get(product, "fullName", EmptyStr)]))

\* agreement_info with the given product summary.
AgreementWith(agreement, product) ==
  IF product.raised THEN product
  ELSE Ok(Dict([valid_from |-> Get(agreement, "validFrom", Unknown),
                valid_to |-> Get(agreement, "validTo", Unknown),
                product |-> product.val]))

\* agreement_info of one agreement; its "product" is filled in only when
\* agreement.get("product") is truthy, and is {} otherwise.
AgreementInfo(agreement) ==
  IF ~IsDict(agreement) THEN Raise("AttributeError")
  ELSE IF ~Truthy(Get(agreement, "product", PyNone))
  THEN AgreementWith(agreement, Ok(EmptyDict))
  ELSE AgreementWith(agreement,
                     AgreementProduct(Get(agreement, "product", EmptyDict)))

\* for agreement in agreements: append agreement_info.
RECURSIVE AgreementsLoop(_, _)
AgreementsLoop(agreements, i) ==
  IF i > Len(agreements) THEN Ok(<<>>)
  ELSE Cons(AgreementInfo(agreements[i]), AgreementsLoop(agreements, i + 1))

\* The loop over what iter() gave, or the TypeError iter() raised.
AgreementsOf(items) ==
  IF items.raised THEN items ELSE AgreementsLoop(items.val, 1)

\* The meter block of a malo whose "meter" is truthy.
MeterInfo(meter) ==
  IF ~IsDict(meter) THEN Raise("AttributeError")
  ELSE Ok(Dict([id |-> Get(meter, "id", Unknown),
                meter_type |-> Get(meter, "meterType", Unknown),
                number |-> Get(meter, "number", Unknown),
                should_receive_smart_meter_data |->
                  Get(meter, "shouldReceiveSmartMeterData", Bool(FALSE)),
                submit_meter_reading_url |->
                  Get(meter, "submitMeterReadingUrl", EmptyStr)]))

\* The "meter" entry of malo_info: none when malo.get("meter") is falsy.
MeterEntry(malo) ==
  IF ~Truthy(Get(malo, "meter", PyNone)) THEN Ok(EmptyMap)
  ELSE IF MeterInfo(Get(malo, "meter", EmptyDict)).raised
  THEN Raise("AttributeError")
  ELSE Ok("meter" :> MeterInfo(Get(malo, "meter", EmptyDict)).val)

\* malo_info with the given meter entry and agreements; the meter block is
\* built before the agreements are walked.
MaloWith(malo, meter, agreements) ==
  IF meter.raised THEN meter
  ELSE IF agreements.raised THEN agreements
  ELSE Ok(Dict([malo_number |-> Get(malo, "maloNumber", Unknown),
                melo_number |-> Get(malo, "meloNumber", Unknown),
                reference_consumption |->
                  Get(malo, "referenceConsumption", Unknown)]
               @@ meter.val
               @@ ("agreements" :> List(agreements.val))))

\* malo_info of one malo: its numbers, the meter block if the malo has a
\* truthy "meter", and its agreements in order.
MaloInfo(malo) ==
  IF ~IsDict(malo) THEN Raise("AttributeError")
  ELSE MaloWith(malo, MeterEntry(malo),
                AgreementsOf(Iter(Get(malo, "agreements", EmptyList))))

\* for malo in malos: append malo_info.
RECURSIVE MalosLoop(_, _)
MalosLoop(malos, i) ==
  IF i > Len(malos) THEN Ok(<<>>)
  ELSE Cons(MaloInfo(malos[i]), MalosLoop(malos, i + 1))

MalosOf(items) ==
  IF items.raised THEN items ELSE MalosLoop(items.val, 1)

PropertyWith(prop, malos) ==
  IF malos.raised THEN malos
  ELSE Ok(Dict([id |-> Get(prop, "id", Unknown),
                electricity_malos |-> List(malos.val)]))

\* property_info of one property.
PropertyInfo(prop) ==
  IF ~IsDict(prop) THEN Raise("AttributeError")
  ELSE PropertyWith(prop, MalosOf(Iter(Get(prop, "electricityMalos", EmptyList))))

\* for prop in all_properties: append property_info.
RECURSIVE PropertiesLoop(_, _)
PropertiesLoop(all_properties, i) ==
  IF i > Len(all_properties) THEN Ok(<<>>)
  ELSE Cons(PropertyInfo(all_properties[i]),
            PropertiesLoop(all_properties, i + 1))

PropertiesOf(items) ==
  IF items.raised THEN items ELSE PropertiesLoop(items.val, 1)

\* properties_info of an account record (a dict): account_obj is
\* account_data.get("account", {}), all_properties is
\* account_obj.get("allProperties", []).
PropertiesInfo(account_data) ==
  IF ~IsDict(Get(account_data, "account", EmptyDict))
  THEN Raise("AttributeError")
  ELSE PropertiesOf(Iter(Get(Get(account_data, "account", EmptyDict),
                             "allProperties", EmptyList)))

\* The "electricity_balance" entry of product_attributes: present if the
\* account record has the key, formatted with two decimals.
BalanceEntry(account_data, balance) ==
  IF ~Has(account_data, "electricity_balance") THEN Ok(EmptyMap)
  ELSE IF balance.raised THEN balance
  ELSE Ok("electricity_balance" :> balance.val)

ProductWith(product, account_data, properties_info, balance) ==
  IF balance.raised THEN balance
  ELSE Ok(Dict([code |-> Get(product, "code", Unknown),
                name |-> Get(product, "name", Unknown),
                description |-> Get(product, "description", Unknown),
                type |-> Get(product, "type", Unknown),
                valid_from |-> Get(product, "validFrom", Unknown),
                valid_to |-> Get(product, "validTo", Unknown),
                properties |-> List(properties_info),
                malo_number |-> Get(account_data, "malo_number", Unknown),
                melo_number |-> Get(account_data, "melo_number", Unknown)]
               @@ balance.val))

\* product_attributes built from the first product of the loop.
ProductAttributes(product, account_data, properties_info) ==
  IF ~IsDict(product) THEN Raise("AttributeError")
  ELSE ProductWith(product, account_data, properties_info,
         BalanceEntry(account_data,
           FormatBalance(Get(account_data, "electricity_balance", PyNone))))

\* The bare default tree when there are no products.
AttributesWithEmptyProperties(account_data, products, properties_info) ==
  IF properties_info.raised THEN properties_info
  ELSE IF ~Truthy(products) THEN Ok(default_attributes)
  ELSE IF Iter(products).raised THEN Raise("TypeError")
  ELSE ProductAttributes(Iter(products).val[1], account_data,
                         properties_info.val)

\* A loop without the break: the last product's attributes stay.
AttributesWithLastProduct(account_data, products, properties_info) ==
  IF properties_info.raised THEN properties_info
  ELSE IF ~Truthy(products)
  THEN Ok(Dict([default_attributes.d EXCEPT
                  !.properties = List(properties_info.val)]))
  ELSE IF Iter(products).raised THEN Raise("TypeError")
  ELSE ProductAttributes(Iter(products).val[Len(Iter(products).val)],
                         account_data, properties_info.val)

\* The part of _update_attributes after properties_info is built.
AttributesWith(account_data, products, properties_info) ==
  IF properties_info.raised THEN properties_info
  ELSE IF ~Truthy(products)
  THEN Ok(Dict([default_attributes.d EXCEPT
                  !.properties = List(properties_info.val)]))
  ELSE IF Iter(products).raised THEN Raise("TypeError")
  ELSE ProductAttributes(Iter(products).val[1], account_data,
                         properties_info.val)

\* The tree _update_attributes assigns to self._attributes, or the exception
\* that escapes it before the assignment.
BuildAttributes(coordinator_data, account_number) ==
  IF ~Truthy(coordinator_data) \/ ~IsDict(coordinator_data)
  THEN Ok(default_attributes)
  ELSE IF ~Has(coordinator_data, account_number) THEN Ok(default_attributes)
  ELSE IF ~IsDict(coordinator_data.d[account_number])
  THEN Raise("AttributeError")
  ELSE AttributesWith(coordinator_data.d[account_number],
                      Get(coordinator_data.d[account_number], "products", EmptyList),
                      PropertiesInfo(coordinator_data.d[account_number]))

\* _update_attributes as a step of self: the value of self._attributes
\* after the call and whether the call raised (self._attributes is then
\* what it was).
\* self._attributes.update(...) in place of the assignment: keys of the
\* earlier tree that the new one lacks stay.
AttributesAfterMerging(self_attributes, built) ==
  IF built.raised
  THEN [raised |-> TRUE, exc |-> built.exc, attrs |-> self_attributes]
  ELSE [raised |-> FALSE, exc |-> "",
        attrs |-> Dict(built.val.d @@ self_attributes.d)]

\* The assignment self._attributes = ..., which an exception before it
\* leaves undone.
AttributesAfter(self_attributes, built) ==
  IF built.raised
  THEN [raised |-> TRUE, exc |-> built.exc, attrs |-> self_attributes]
  ELSE [raised |-> FALSE, exc |-> "", attrs |-> built.val]

update_attributes(self_attributes, coordinator_data, account_number) ==
  AttributesAfter(self_attributes,
                  BuildAttributes(coordinator_data, account_number))

(***************************************************************************)
(* The snapshots the coordinator can hold.  The coordinator is an external *)
(* collaborator; its data is drawn from the sets below.                    *)
(***************************************************************************)
\* The longest products list and the longest agreements list of a snapshot.
MaxProducts == 2
MaxAgreements == 2

\* The sensor's account number, and another account's.
AccountNumber == "A1"
OtherAccount == "B2"

Absent == [t |-> "absent"]
\* One key of a dict literal, left out when its value is Absent.
Opt(key, v) == IF v = Absent THEN EmptyMap ELSE key :> v

\* A product with every descriptive field (derived from its code) and the
\* given grossRate, or none when rate is Absent.
Product(c, rate) ==
  Dict([code |-> Str(<<c>>), name |-> Str(<<"n", c>>),
        description |-> Str(<<"d", c>>), type |-> Str(<<"t", c>>),
        validFrom |-> Str(<<"2", "4", c>>), validTo |-> PyNone]
       @@ Opt("grossRate", rate))

\* Products as the data model describes them, with a grossRate that is a
\* numeric string, a non-numeric string or null.
CoreProducts ==
  { Product("a", Str(<<"a", "b", "c">>)),
    Product("b", Str(<<"2", "5", "0">>)),
    Product("c", Str(<<"1", "5", "0">>)),
    Product("d", Str(<<"9", "9", "9">>)),
    Product("e", PyNone) }

\* A product with a type and nothing else: no grossRate, no code.
BareProduct == Dict([type |-> Str(<<"t", "f">>)])

\* Further shapes of grossRate, met in one-product lists: an int, a float,
\* padded and signed numerals, the empty string, malformed numerals, a
\* bool and a list.
OtherRates ==
  { Num(25, 1), Num(61, 2), Str(<<" ", "2", ".", "5", " ">>),
    Str(<<"-", "0", ".", "5">>), Str(<<"+", "7">>), EmptyStr,
    Str(<<"1", ".", "2", ".", "3">>), Str(<<"2", ",", "5">>),
    Str(<<"-">>), Bool(TRUE), EmptyList }

ProductLists ==
  UNION {[1..k -> CoreProducts] : k \in 0..MaxProducts}
    \cup {<<Product("g", r)>> : r \in OtherRates}
    \cup { <<BareProduct>>,
           <<Product("a", Str(<<"a", "b", "c">>)), BareProduct>>,
           <<BareProduct, Product("b", Str(<<"2", "5", "0">>))>> }

Agreement(c, validTo, product) ==
  Dict([validFrom |-> Str(<<"2", "3", c>>)]
       @@ Opt("validTo", validTo) @@ Opt("product", product))

Agreements ==
  { Agreement("x", Str(<<"2", "5", "x">>),
              Dict([code |-> Str(<<"x">>), description |-> Str(<<"d", "x">>),
                    fullName |-> Str(<<"f", "x">>)])),
    Agreement("y", PyNone, Dict([code |-> Str(<<"y">>)])),
    Agreement("z", Absent, PyNone) }

AgreementLists == UNION {[1..k -> Agreements] : k \in 0..MaxAgreements}

Meter ==
  Dict([id |-> Str(<<"7">>), meterType |-> Str(<<"M">>),
        number |-> Str(<<"1", "Z">>), shouldReceiveSmartMeterData |-> Bool(TRUE)])

Malo(c, meter, agreements) ==
  Dict([maloNumber |-> Str(<<"5", c>>), meloNumber |-> Str(<<"D", "E", c>>)]
       @@ Opt("meter", meter) @@ Opt("agreements", agreements))

Malos ==
  {Malo("1", Meter, List(al)) : al \in AgreementLists}
    \cup { Malo("2", Absent, Absent), Malo("3", PyNone, EmptyList),
           Malo("4", EmptyDict, List(<<Agreement("w", Absent, Absent)>>)) }

MaloLists ==
  {<<>>} \cup {<<m>> : m \in Malos}
    \cup {<<Malo("2", Absent, Absent), Malo("3", PyNone, EmptyList)>>}

Properties ==
  {Dict([id |-> Str(<<"9">>), electricityMalos |-> List(ml)]) : ml \in MaloLists}
    \cup {EmptyDict}

PropertyLists ==
  {<<>>} \cup {<<p>> : p \in Properties}
    \cup {<<EmptyDict, Dict([id |-> Str(<<"8">>), electricityMalos |-> EmptyList])>>}

\* The "account" value of an account record.
AccountObjs ==
  {EmptyDict} \cup {Dict([allProperties |-> List(pl)]) : pl \in PropertyLists}

\* Numeric balances: 12.3, -5, 0.125, 0.
Balances == {Num(123, 10), Num(-5, 1), Num(1, 8), Num(0, 1)}

AccountRecord(products, account, balance, malo_number) ==
  Dict(Opt("products", products) @@ Opt("account", account)
       @@ Opt("electricity_balance", balance)
       @@ Opt("malo_number", malo_number)
       @@ Opt("melo_number", IF malo_number = Absent THEN Absent
                             ELSE Str(<<"D", "E">>)))

\* coordinator.data holding the given record for the sensor's account.
Data(record) == Dict(AccountNumber :> record)

FewProducts ==
  { Absent, EmptyList,
    List(<<Product("a", Str(<<"a", "b", "c">>)),
           Product("b", Str(<<"2", "5", "0">>))>>) }

\* Account records that conform to the data model: products a list of
\* products, account absent or an AccountInfo, a numeric balance.
BalanceRecords ==
  {AccountRecord(ps, Absent, b, m) :
     ps \in FewProducts, b \in Balances \cup {Absent},
     m \in {Absent, Str(<<"5", "0">>)}}

AccountRecords ==
  {AccountRecord(List(pl), Absent, Absent, Absent) : pl \in ProductLists}
    \cup {AccountRecord(ps, a, Absent, Str(<<"5", "0">>)) :
            ps \in FewProducts \ {Absent}, a \in AccountObjs}
    \cup BalanceRecords

\* coordinator.data with no record for the account, or none at all, or of
\* another type than a mapping.
NoRecord ==
  { PyNone, EmptyDict, Dict(OtherAccount :> EmptyDict),
    List(<<Str(<<"A", "1">>)>>), EmptyList, Str(<<"A", "1">>),
    Num(0, 1), Num(7, 1), Bool(TRUE) }

\* The snapshots of a coordinator that delivers what the data model says.
Snapshots ==
  NoRecord \cup {Data(r) : r \in AccountRecords}
    \cup {Dict((AccountNumber :> AccountRecord(EmptyList, Absent, Absent, Absent))
               @@ (OtherAccount :> AccountRecord(
                     List(<<Product("b", Str(<<"2", "5", "0">>))>>),
                     Absent, Num(1, 1), Absent)))}

OneProduct == List(<<Product("b", Str(<<"2", "5", "0">>))>>)

\* Account records with a nested field of another type than the data model
\* gives it.
MalformedRecords ==
  { PyNone, Str(<<"x">>), EmptyList,
    AccountRecord(OneProduct, PyNone, Absent, Absent),
    AccountRecord(EmptyList, PyNone, Absent, Absent),
    AccountRecord(EmptyList, Dict([allProperties |-> PyNone]), Absent, Absent),
    AccountRecord(EmptyList, Dict([allProperties |-> List(<<PyNone>>)]),
                  Absent, Absent),
    AccountRecord(OneProduct,
                  Dict([allProperties |-> List(<<Dict([electricityMalos |->
                          List(<<Str(<<"m">>)>>)])>>)]), Absent, Absent),
    AccountRecord(OneProduct,
                  Dict([allProperties |-> List(<<Dict([electricityMalos |->
                          List(<<Malo("1", Str(<<"m">>), EmptyList)>>)])>>)]),
                  Absent, Absent),
    AccountRecord(OneProduct,
                  Dict([allProperties |-> List(<<Dict([electricityMalos |->
                          List(<<Malo("1", Meter, List(<<Num(1, 1)>>))>>)])>>)]),
                  Absent, Absent),
    AccountRecord(OneProduct,
                  Dict([allProperties |-> List(<<Dict([electricityMalos |->
                          List(<<Malo("1", Meter, List(<<Agreement("x", Absent,
                                   Str(<<"p">>))>>))>>)])>>)]),
                  Absent, Absent),
    AccountRecord(OneProduct,
                  Dict([allProperties |-> List(<<Dict([electricityMalos |->
                          List(<<Malo("1", Meter, PyNone)>>)])>>)]),
                  Absent, Absent),
    AccountRecord(List(<<PyNone>>), Absent, Absent, Absent),
    AccountRecord(List(<<Product("a", Str(<<"a", "b", "c">>)), Str(<<"p">>)>>),
                  Absent, Absent, Absent),
    AccountRecord(List(<<Product("b", Str(<<"2", "5", "0">>)), Num(3, 1)>>),
                  Absent, Absent, Absent),
    AccountRecord(Str(<<"p", "q">>), Absent, Absent, Absent),
    AccountRecord(Num(5, 1), Absent, Absent, Absent),
    AccountRecord(PyNone, Absent, Absent, Absent),
    AccountRecord(OneProduct, Absent, Str(<<"1", "2", ".", "3">>), Absent),
    AccountRecord(OneProduct, Absent, PyNone, Absent),
    AccountRecord(EmptyList, Absent, Str(<<"1", "2", ".", "3">>), Absent) }

\* The snapshots of a coordinator that may deliver anything: those
\* without a record, some that conform to the data model, and the
\* malformed ones.
AnySnapshots ==
  NoRecord \cup {Data(r) : r \in BalanceRecords \cup MalformedRecords}

(***************************************************************************)
(* State                                                                   *)
(***************************************************************************)
VARIABLES
  data,                 \* coordinator.data
  last_update_success,  \* coordinator.last_update_success
  pc,                   \* async_setup_entry: "start", "refreshed", "done", "raised"
  refreshes,            \* coordinator.async_refresh() calls made by async_setup_entry
  add_calls,            \* the entity count of each async_add_entities call, in order
  sensor,               \* TRUE once the price sensor is constructed and added
  attributes,           \* the sensor's self._attributes
  notify,               \* the coordinator is dispatching an update to the sensor
  op,                   \* the operation that ran last
  ret,                  \* its outcome
  written               \* the state last written by async_write_ha_state

vars == <<data, last_update_success, pc, refreshes, add_calls, sensor,
          attributes, notify, op, ret, written>>

Unwritten == [t |-> "unwritten"]

(***************************************************************************)
(* async_setup_entry                                                       *)
(***************************************************************************)
\* OctopusElectricityPriceSensor.__init__: self._attributes = {} and then
\* self._update_attributes().
init_sensor(coordinator_data, account_number) ==
  update_attributes(EmptyDict, coordinator_data, account_number)

\* A condition that asks for the account's record only.
have_account(coordinator_data, account_number) ==
  /\ Truthy(coordinator_data)
  /\ Has(coordinator_data, account_number)

\* The condition under which async_setup_entry appends the price sensor.
have_products(coordinator_data, account_number) ==
  /\ Truthy(coordinator_data)
  /\ Has(coordinator_data, account_number)
  /\ Truthy(Get(coordinator_data.d[account_number], "products", PyNone))

\* async_setup_entry from the debug block on: whether an exception escapes,
\* whether async_add_entities is called (always with the one sensor), and
\* the attributes of the sensor it constructed.  The debug block calls
\* .keys() on truthy coordinator data and on the account's record.
setup_entities(coordinator_data, account_number) ==
  LET debug_raises ==
        /\ Truthy(coordinator_data)
        /\ \/ ~IsDict(coordinator_data)
           \/ /\ Has(coordinator_data, account_number)
              /\ ~IsDict(coordinator_data.d[account_number])
      created == init_sensor(coordinator_data, account_number)
  IN  IF debug_raises
      THEN [raised |-> TRUE, added |-> FALSE, attrs |-> EmptyDict]
      ELSE IF ~have_products(coordinator_data, account_number)
      THEN [raised |-> FALSE, added |-> FALSE, attrs |-> EmptyDict]
      ELSE IF created.raised
      THEN [raised |-> TRUE, added |-> FALSE, attrs |-> EmptyDict]
      ELSE [raised |-> FALSE, added |-> TRUE, attrs |-> created.attrs]

\* if coordinator.data is None: await coordinator.async_refresh().  The
\* refresh leaves a snapshot, or None again when the fetch failed.
SetupRefresh(feed) ==
  /\ pc = "start"
  /\ data = PyNone
  /\ \E d \in feed :
       /\ data' = d
       /\ last_update_success' = (d # PyNone)
  /\ pc' = "refreshed"
  /\ refreshes' = refreshes + 1
  /\ op' = "async_refresh"
  /\ UNCHANGED <<add_calls, sensor, attributes, notify, ret, written>>

\* The rest of async_setup_entry, which has no further await.
SetupRegister ==
  /\ \/ pc = "refreshed"
     \/ pc = "start" /\ data # PyNone
  /\ LET r == setup_entities(data, AccountNumber)
     IN  /\ pc' = IF r.raised THEN "raised" ELSE "done"
         /\ add_calls' = IF r.added THEN Append(add_calls, 1) ELSE add_calls
         /\ sensor' = r.added
         /\ attributes' = r.attrs
  /\ op' = "async_setup_entry"
  /\ UNCHANGED <<data, last_update_success, refreshes, notify, ret, written>>

(***************************************************************************)
(* The coordinator                                                         *)
(***************************************************************************)
\* A scheduled refresh after setup: a new snapshot (None if that is what the
\* fetch returned), or a failed fetch that keeps the data.  Either way the listeners are called; the sensor is one
\* once it is added.
CoordinatorRefresh(feed) ==
  /\ pc = "done"
  /\ ~notify
  /\ \/ \E d \in feed :
          /\ data' = d
          /\ last_update_success' = TRUE
     \/ /\ last_update_success' = FALSE
        /\ UNCHANGED data
  /\ notify' = sensor
  /\ op' = "async_refresh"
  /\ ret' = Ok(PyNone)
  /\ UNCHANGED <<pc, refreshes, add_calls, sensor, attributes, written>>

(***************************************************************************)
(* The sensor's handlers                                                   *)
(***************************************************************************)
\* A callback that publishes the state before it refreshes the attributes.
handle_write_first(self_attributes, coordinator_data, account_number) ==
  LET updated == update_attributes(self_attributes, coordinator_data, account_number)
      value == native_value(coordinator_data, account_number)
  IN  [attrs |-> updated.attrs,
       raised |-> updated.raised \/ value.raised,
       state |-> IF value.raised THEN Unwritten
                 ELSE [native_value |-> value.val,
                       extra_state_attributes |-> self_attributes]]

\* _handle_coordinator_update: self._update_attributes(), then
\* self.async_write_ha_state(), which reads native_value and
\* extra_state_attributes.  An exception in either ends the callback; the
\* state is written only if neither raised.
handle_coordinator_update(self_attributes, coordinator_data, account_number) ==
  LET updated == update_attributes(self_attributes, coordinator_data, account_number)
      value == native_value(coordinator_data, account_number)
  IN  [attrs |-> updated.attrs,
       raised |-> updated.raised \/ value.raised,
       state |-> IF updated.raised \/ value.raised THEN Unwritten
                 ELSE [native_value |-> value.val,
                       extra_state_attributes |-> updated.attrs]]

\* A callback that fills in a missing "account" of the account's record in
\* the coordinator's data (setdefault in place of get).
HandleCoordinatorUpdateSettingDefault ==
  /\ sensor
  /\ notify
  /\ LET r == handle_coordinator_update(attributes, data, AccountNumber)
     IN  /\ attributes' = r.attrs
         /\ written' = IF r.state = Unwritten THEN written ELSE r.state
         /\ ret' = IF r.raised THEN Raise("Exception") ELSE Ok(PyNone)
  /\ data' = IF IsDict(data) /\ Has(data, AccountNumber)
                  /\ IsDict(data.d[AccountNumber])
             THEN Dict([data.d EXCEPT ![AccountNumber] =
                    Dict(data.d[AccountNumber].d @@ ("account" :> EmptyDict))])
             ELSE data
  /\ notify' = FALSE
  /\ op' = "_handle_coordinator_update"
  /\ UNCHANGED <<last_update_success, pc, refreshes, add_calls, sensor>>

HandleCoordinatorUpdate ==
  /\ sensor
  /\ notify
  /\ LET r == handle_coordinator_update(attributes, data, AccountNumber)
     IN  /\ attributes' = r.attrs
         /\ written' = IF r.state = Unwritten THEN written ELSE r.state
         /\ ret' = IF r.raised THEN Raise("Exception") ELSE Ok(PyNone)
  /\ notify' = FALSE
  /\ op' = "_handle_coordinator_update"
  /\ UNCHANGED <<data, last_update_success, pc, refreshes, add_calls, sensor>>

\* async_update: super().async_update() asks the coordinator for a refresh
\* (CoordinatorRefresh); then self._update_attributes().
AsyncUpdate ==
  /\ sensor
  /\ ~notify
  /\ LET r == update_attributes(attributes, data, AccountNumber)
     IN  /\ attributes' = r.attrs
         /\ ret' = IF r.raised THEN Raise(r.exc) ELSE Ok(PyNone)
  /\ op' = "async_update"
  /\ UNCHANGED <<data, last_update_success, pc, refreshes, add_calls, sensor,
                 notify, written>>

\* The native_value property.
NativeValue ==
  /\ sensor
  /\ ~notify
  /\ ret' = native_value(data, AccountNumber)
  /\ op' = "native_value"
  /\ UNCHANGED <<data, last_update_success, pc, refreshes, add_calls, sensor,
                 attributes, notify, written>>

\* The extra_state_attributes property.
ExtraStateAttributes ==
  /\ sensor
  /\ ~notify
  /\ ret' = Ok(attributes)
  /\ op' = "extra_state_attributes"
  /\ UNCHANGED <<data, last_update_success, pc, refreshes, add_calls, sensor,
                 attributes, notify, written>>

\* The available property (self.coordinator is never None).
available(coordinator_data, success, account_number) ==
  /\ success
  /\ IsDict(coordinator_data)
  /\ Has(coordinator_data, account_number)

Available ==
  /\ sensor
  /\ ~notify
  /\ ret' = Ok(Bool(available(data, last_update_success, AccountNumber)))
  /\ op' = "available"
  /\ UNCHANGED <<data, last_update_success, pc, refreshes, add_calls, sensor,
                 attributes, notify, written>>

(***************************************************************************)
(* Specifications                                                          *)
(***************************************************************************)
InitOver(feed) ==
  /\ data \in feed
  /\ last_update_success = TRUE
  /\ pc = "start"
  /\ refreshes = 0
  /\ add_calls = <<>>
  /\ sensor = FALSE
  /\ attributes = EmptyDict
  /\ notify = FALSE
  /\ op = "none"
  /\ ret = Ok(PyNone)
  /\ written = Unwritten

\* The coordinator delivers snapshots that conform to the data model.
Init == InitOver(Snapshots)

Next ==
  \/ SetupRefresh(Snapshots)
  \/ SetupRegister
  \/ CoordinatorRefresh(Snapshots)
  \/ HandleCoordinatorUpdate
  \/ AsyncUpdate
  \/ NativeValue
  \/ ExtraStateAttributes
  \/ Available

Spec == Init /\ [][Next]_vars

\* The coordinator may deliver snapshots with nested fields of any type.
InitAny == InitOver(AnySnapshots)

NextAny ==
  \/ SetupRefresh(AnySnapshots)
  \/ SetupRegister
  \/ CoordinatorRefresh(AnySnapshots)
  \/ HandleCoordinatorUpdate
  \/ AsyncUpdate
  \/ NativeValue
  \/ ExtraStateAttributes
  \/ Available

SpecAny == InitAny /\ [][NextAny]_vars

(***************************************************************************)
(* Properties                                                              *)
(***************************************************************************)
\* The coordinator's data holds a record (a mapping) for the account.
HasRecord ==
  /\ IsDict(data)
  /\ Has(data, AccountNumber)
  /\ IsDict(data.d[AccountNumber])

\* The account's record, and its products as a sequence (empty if the
\* record has none).
TheRecord == data.d[AccountNumber]
TheProducts ==
  IF Has(TheRecord, "products") /\ TheRecord.d["products"].t = "list"
  THEN TheRecord.d["products"].l
  ELSE <<>>

\* The grossRate of a product, "0" for a product without the key, parses.
RateOf(product) ==
  IF Has(product, "grossRate") THEN product.d["grossRate"] ELSE Zero
Parses(product) == ~Float(RateOf(product)).raised

\* An attribute operation ran last, on the data as it is now.
AttributesJustUpdated ==
  sensor /\ op \in {"_handle_coordinator_update", "async_update"}

AbcThen250 ==
  Data(AccountRecord(List(<<Product("a", Str(<<"a", "b", "c">>)),
                            Product("b", Str(<<"2", "5", "0">>))>>),
                     Absent, Absent, Absent))
P150Then999 ==
  Data(AccountRecord(List(<<Product("c", Str(<<"1", "5", "0">>)),
                            Product("d", Str(<<"9", "9", "9">>))>>),
                     Absent, Absent, Absent))

\* C1: for an account record with a non-empty products list, native_value
\* returns grossRate/100 of the first product, in list order, whose
\* grossRate (or "0" when the key is missing) parses as a number: the
\* products before it, which do not parse, are skipped, and the products
\* after it do not matter.  ["abc", "250"] gives 2.5 and ["150", "999"]
\* gives 1.5.
C1_FirstParsingProductGivesThePrice ==
  (op = "native_value" /\ HasRecord /\ TheProducts # <<>>) =>
    /\ \A i \in 1..Len(TheProducts) :
         (Parses(TheProducts[i]) /\ \A j \in 1..(i - 1) : ~Parses(TheProducts[j]))
           => ret = Ok(Div100(Float(RateOf(TheProducts[i])).val))
    /\ data = AbcThen250 => ret = Ok([t |-> "num", n |-> 5, den |-> 2])
    /\ data = P150Then999 => ret = Ok([t |-> "num", n |-> 3, den |-> 2])

\* native_value has skipped a product that does not parse and returned the
\* price of the next.
C1_Witness ==
  /\ op = "native_value"
  /\ data = AbcThen250
  /\ ret = Ok([t |-> "num", n |-> 5, den |-> 2])

\* The cases in which there is no price: no data, empty data, data that is
\* no mapping, no entry for the account, no or empty products, or no product
\* whose grossRate parses.
NoPriceCase ==
  \/ data = PyNone
  \/ ~Truthy(data)
  \/ ~IsDict(data)
  \/ ~Has(data, AccountNumber)
  \/ ~Has(TheRecord, "products")
  \/ TheProducts = <<>>
  \/ \A i \in 1..Len(TheProducts) : ~Parses(TheProducts[i])

\* C2: native_value returns None, and does not raise, exactly when the
\* data is absent, empty or no mapping, the account is not a key of it,
\* the account's products are absent or empty, or no product's grossRate
\* parses; in every other case it returns a number.
C2_NoneExactlyWhenNoPrice ==
  op = "native_value" =>
    /\ ~ret.raised
    /\ NoPriceCase => ret.val = PyNone
    /\ ~NoPriceCase => ret.val.t = "num"

\* native_value has returned None for products none of which parses.
C2_Witness ==
  /\ op = "native_value"
  /\ HasRecord
  /\ Len(TheProducts) = 2
  /\ ret = Ok(PyNone)

\* C3: whatever the coordinator's data holds (nested fields absent or of
\* an unexpected type included), neither native_value nor
\* _update_attributes raises: every call of the sensor ends in a returned
\* value, never in an escaped exception.
C3_NothingRaises == ~ret.raised

\* C4: when the coordinator's data is absent, empty, no mapping, or lacks
\* the account number, _update_attributes leaves exactly the default tree:
\* the six scalars "Unknown", properties the empty list, and no other key.
C4_DefaultTreeWithoutRecord ==
  (AttributesJustUpdated
     /\ (data = PyNone \/ ~Truthy(data) \/ ~IsDict(data)
           \/ ~Has(data, AccountNumber)))
    => attributes =
         Dict([code |-> Unknown, name |-> Unknown, description |-> Unknown,
               type |-> Unknown, valid_from |-> Unknown, valid_to |-> Unknown,
               properties |-> EmptyList])

\* _update_attributes has run on data that is a list, not a mapping.
C4_Witness ==
  /\ AttributesJustUpdated
  /\ data.t = "list"
  /\ Truthy(data)
  /\ DOMAIN attributes.d =
       {"code", "name", "description", "type", "valid_from", "valid_to",
        "properties"}

\* The allProperties of the account's record, as a sequence.
TheProperties ==
  IF Has(TheRecord, "account") /\ Has(TheRecord.d["account"], "allProperties")
  THEN TheRecord.d["account"].d["allProperties"].l
  ELSE <<>>
\* The malos of a property and the agreements of a malo, as sequences.
MalosIn(prop) ==
  IF Has(prop, "electricityMalos") THEN prop.d["electricityMalos"].l ELSE <<>>
AgreementsIn(malo) ==
  IF Has(malo, "agreements") THEN malo.d["agreements"].l ELSE <<>>
Field(record, key) == IF Has(record, key) THEN record.d[key] ELSE Unknown

\* The properties list of the attribute tree mirrors the record: one entry
\* per property, one record per malo under it, one agreement record per
\* agreement under that, each in input order.
PropertiesMirrorTheRecord ==
  /\ Has(attributes, "properties")
  /\ attributes.d["properties"].t = "list"
  /\ LET out == attributes.d["properties"].l
     IN  /\ Len(out) = Len(TheProperties)
         /\ \A i \in 1..Len(TheProperties) :
              LET malos == MalosIn(TheProperties[i])
                  outm == out[i].d["electricity_malos"].l
              IN  /\ out[i].d["id"] = Field(TheProperties[i], "id")
                  /\ Len(outm) = Len(malos)
                  /\ \A j \in 1..Len(malos) :
                       LET agrs == AgreementsIn(malos[j])
                           outa == outm[j].d["agreements"].l
                       IN  /\ outm[j].d["malo_number"] = Field(malos[j], "maloNumber")
                           /\ Len(outa) = Len(agrs)
                           /\ \A k \in 1..Len(agrs) :
                                /\ outa[k].d["valid_from"] = Field(agrs[k], "validFrom")
                                /\ outa[k].d["valid_to"] = Field(agrs[k], "validTo")

ScalarKeys == {"code", "name", "description", "type", "valid_from", "valid_to"}

\* C5: when the account's record is there but its products are empty or
\* absent, _update_attributes leaves the six scalars "Unknown" and the
\* computed properties list (not an empty one): one entry per property,
\* one record per malo, one agreement record per agreement, in input
\* order; there is no other key.
C5_NoProductsKeepsComputedProperties ==
  (AttributesJustUpdated /\ HasRecord /\ TheProducts = <<>>) =>
    /\ DOMAIN attributes.d = ScalarKeys \cup {"properties"}
    /\ \A key \in ScalarKeys : attributes.d[key] = Unknown
    /\ PropertiesMirrorTheRecord

\* _update_attributes has run on a record with products [] and one property
\* with one malo with two agreements, "x" before "z".
C5_Witness ==
  /\ AttributesJustUpdated
  /\ HasRecord
  /\ Has(TheRecord, "products") /\ TheProducts = <<>>
  /\ Len(TheProperties) = 1
  /\ Len(MalosIn(TheProperties[1])) = 1
  /\ Len(AgreementsIn(MalosIn(TheProperties[1])[1])) = 2
  /\ LET outa == attributes.d["properties"].l[1].d["electricity_malos"].l[1]
                   .d["agreements"].l
     IN  /\ Len(outa) = 2
         /\ outa[1].d["valid_from"] = Str(<<"2", "3", "x">>)
         /\ outa[2].d["valid_from"] = Str(<<"2", "3", "z">>)

\* The key of a product that each scalar of the attribute tree comes from.
SourceKey(key) ==
  CASE key = "valid_from" -> "validFrom"
    [] key = "valid_to" -> "validTo"
    [] OTHER -> key

\* C6: when products is non-empty, _update_attributes takes code, name,
\* description, type, valid_from and valid_to from products[0] alone
\* ("Unknown" for a missing field), whatever its grossRate and whatever
\* follows it; it attaches the computed properties list, malo_number and
\* melo_number of the account's record ("Unknown" if absent), and an
\* electricity_balance exactly when the record has that key.
C6_AttributesDescribeTheFirstProduct ==
  (AttributesJustUpdated /\ HasRecord /\ TheProducts # <<>>) =>
    /\ \A key \in ScalarKeys :
         attributes.d[key] = Field(TheProducts[1], SourceKey(key))
    /\ PropertiesMirrorTheRecord
    /\ attributes.d["malo_number"] = Field(TheRecord, "malo_number")
    /\ attributes.d["melo_number"] = Field(TheRecord, "melo_number")
    /\ Has(attributes, "electricity_balance") <=> Has(TheRecord, "electricity_balance")
    /\ DOMAIN attributes.d \subseteq
         ScalarKeys \cup {"properties", "malo_number", "melo_number",
                          "electricity_balance"}

\* The callback has written a price taken from the second product with
\* attributes that describe the first.
C6_Witness ==
  /\ op = "_handle_coordinator_update"
  /\ data = AbcThen250
  /\ attributes.d["code"] = Str(<<"a">>)
  /\ written # Unwritten
  /\ written.native_value = [t |-> "num", n |-> 5, den |-> 2]

\* _update_attributes has attached a balance of 12.3 as "12.30 €".
C6_BalanceWitness ==
  /\ AttributesJustUpdated
  /\ HasRecord
  /\ Field(TheRecord, "electricity_balance") = [t |-> "num", n |-> 123, den |-> 10]
  /\ TheProducts # <<>>
  /\ attributes.d["electricity_balance"]
       = Str(<<"1", "2", ".", "3", "0", " ", "€">>)

\* C7: both operations are functions of the snapshot alone.  What
\* _update_attributes leaves does not depend on the tree an earlier call
\* left (it is what a fresh sensor would get), a second call on the same
\* data leaves the tree as the first did, and native_value called twice on
\* the same data returns the same value.
C7_IdempotentProjections ==
  /\ [](sensor =>
          update_attributes(attributes, data, AccountNumber).attrs
            = update_attributes(EmptyDict, data, AccountNumber).attrs)
  /\ [](AttributesJustUpdated =>
          update_attributes(attributes, data, AccountNumber).attrs = attributes)
  /\ [][(AttributesJustUpdated /\ op' = "async_update") =>
          attributes' = attributes]_vars
  /\ [][(op = "native_value" /\ op' = "native_value") => ret' = ret]_vars

\* async_update has run on the data for which the callback wrote the
\* state: _update_attributes has run twice on the same snapshot, and
\* native_value gives what was written.
C7_Witness ==
  /\ op = "async_update"
  /\ HasRecord
  /\ TheProducts # <<>>
  /\ Has(TheRecord, "electricity_balance")
  /\ written # Unwritten
  /\ written.extra_state_attributes = attributes
  /\ written.native_value = native_value(data, AccountNumber).val

SensorOps ==
  {"native_value", "_handle_coordinator_update", "async_update",
   "extra_state_attributes", "available"}

C9_AttributesRefreshedBeforeTheWrite ==
  /\ []((op = "_handle_coordinator_update" /\ ~ret.raised) =>
          /\ written # Unwritten
          /\ written.extra_state_attributes
               = BuildAttributes(data, AccountNumber).val
          /\ written.extra_state_attributes = attributes
          /\ written.native_value = native_value(data, AccountNumber).val)
  /\ [][written' # written => op' = "_handle_coordinator_update"]_vars
  /\ [][attributes' # attributes =>
          op' \in {"async_setup_entry", "_handle_coordinator_update",
                   "async_update"}]_vars

\* The callback has written a state whose attributes carry the balance of
\* the current data.
C9_Witness ==
  /\ op = "_handle_coordinator_update"
  /\ HasRecord
  /\ Has(TheRecord, "electricity_balance")
  /\ written # Unwritten
  /\ Has(written.extra_state_attributes, "electricity_balance")

\* The data is non-empty, contains the account number, and that account's
\* products is non-empty.
RegistrationCondition ==
  /\ IsDict(data)
  /\ Has(data, AccountNumber)
  /\ IsDict(TheRecord)
  /\ Has(TheRecord, "products")
  /\ Truthy(TheRecord.d["products"])

\* C10: async_setup_entry refreshes the coordinator at most once, and only
\* when its data is None at entry; it decides on the data as it is after
\* that refresh, and calls async_add_entities once, with one sensor, exactly
\* when that data is non-empty, contains the account number and the
\* account's products is non-empty, and not at all otherwise.  No product
\* has to parse.
C10_RegistersExactlyWhenProducts ==
  /\ [](refreshes <= 1 /\ Len(add_calls) <= 1)
  /\ [][refreshes' # refreshes =>
          pc = "start" /\ data = PyNone /\ refreshes = 0 /\ refreshes' = 1]_vars
  /\ [][add_calls' # add_calls => op' = "async_setup_entry"]_vars
  /\ [][op' = "async_setup_entry" =>
          /\ data' = data
          /\ IF RegistrationCondition
             THEN add_calls' = <<1>> /\ sensor'
             ELSE add_calls' = <<>> /\ ~sensor']_vars

\* A sensor registered after the one refresh, and not updated since,
\* reports no price: none of its products parses.
C10_Witness ==
  /\ refreshes = 1
  /\ add_calls = <<1>>
  /\ written = Unwritten
  /\ op = "native_value"
  /\ RegistrationCondition
  /\ ret = Ok(PyNone)

====
